---- MODULE Spec2Model ----
(***************************************************************************)
(* Model of the polymarket-live-tracker core.                              *)
(*                                                                         *)
(*  - Request Dispatcher: PolymarketTracker.makeRequest / processQueue     *)
(*    (src/unnamed/part_001).  Node runs the code between two awaits       *)
(*    atomically, so every action below is one such run-to-suspension      *)
(*    segment of a handler.                                                *)
(*  - Balance Reconstructor: PolymarketWinnerTracker.buildHolderSnapshot   *)
(*    and trackMarketWinners (src/unnamed/part_000).                       *)
(*  - Streaming Update Channel: PolymarketTracker.connectWebSocket,        *)
(*    scheduleReconnect, notifyRealtimeUpdate, stopRealTimeTracking, the   *)
(*    'message' handler with updateMarketPrice and handleMarketResolution, *)
(*    and the pages trackActiveEvents stores (src/unnamed/part_001).       *)
(***************************************************************************)
EXTENDS Integers, Sequences, FiniteSets, Bags, TLC

(***************************************************************************)
(* Bounds of the model.                                                    *)
(***************************************************************************)
MaxCalls == 2        \* number of makeRequest calls explored
MaxRetries == 2      \* largest retry budget a caller passes
MaxEvents == 2       \* number of TransferSingle events on the chain
MaxAmount == 2       \* largest value of one transfer
MaxBlock == 2        \* largest block number
MaxChunk == 2        \* largest chunk size explored
MaxConns == 3        \* number of WebSocket objects created
MaxEmissions == 2    \* number of domain events emitted
MaxAdds == 2         \* addRealtimeCallback calls per callback between removals
MaxMessages == 2     \* number of WebSocket messages received
maxReconnectAttempts == 3
                     \* this.maxReconnectAttempts (WS_MAX_RECONNECT_ATTEMPTS)

(***************************************************************************)
(* Program constants.                                                      *)
(***************************************************************************)
delay == 100             \* this.rateLimits.delay
reconnectDelay == 5000   \* this.reconnectDelay
enableRealtime == TRUE   \* this.enableRealtime (ENABLE_REALTIME=true)
RetryBackoff == 2000     \* setTimeout(resolve, 2000) before the re-queue

ReqIds == 1..MaxCalls

\* Outcomes of one axios.get: a response, or an error of one of four shapes.
Results == {"ok", "e429", "econnreset", "timeout", "upstream"}

\* error.response?.status === 429 || error.code === 'ECONNRESET'
IsTransientMut(r) == r \in {"e429", "econnreset", "timeout"}
IsTransient(r) == r \in {"e429", "econnreset"}

\* retries > 0 && (transient)
ShouldRetryMut(retries, r) == IsTransient(r)
ShouldRetry(retries, r) == retries > 0 /\ IsTransient(r)

\* The else branch of the catch block: reject(error).
RejectsCallerMut(retries, r) == TRUE
RejectsCaller(retries, r) == ~ShouldRetry(retries, r)

NoReq == [id |-> 0, retries |-> 0]

VARIABLES
    requestQueue,        \* this.requestQueue: sequence of [id, retries]
    isProcessingQueue,   \* this.isProcessingQueue
    timeSinceLastRequest,\* Date.now() - this.lastRequestTime, kept up to
                         \*   delay (every larger value acts like delay)
    calls,               \* number of makeRequest calls made so far
    pc,                  \* pc[w]: position of the processQueue invocation
                         \*   made by the w-th makeRequest call
    cur,                 \* cur[w]: the request that invocation destructured
    timer,               \* timer[w]: time left on the setTimeout it awaits
    budget,              \* budget[id]: the retries argument of call id
    dispatchLog,         \* history: the axios.get calls, in order
    lastResult,          \* history: outcome of the last finished dispatch
    all429,              \* history: every finished dispatch of id was a 429
    resolveCalls,        \* history: number of resolve(...) calls per request
    rejectCalls          \* history: number of reject(...) calls per request

dvars == <<requestQueue, isProcessingQueue, timeSinceLastRequest, calls, pc,
           cur, timer, budget, dispatchLog, lastResult, all429, resolveCalls,
           rejectCalls>>

VARIABLES
    chain,               \* the TransferSingle log of the position, in order
    blockNumber,         \* buildHolderSnapshot: blockNumber argument
    chunkSize,           \* buildHolderSnapshot: const chunkSize
    start,               \* buildHolderSnapshot: loop variable start
    events,              \* events of the current window not yet folded
    holders,             \* buildHolderSnapshot: const holders = new Map()
    activeHolders,       \* the Map buildHolderSnapshot returned
    spc,                 \* position of the buildHolderSnapshot call
    foldedLog,           \* history: the events folded so far, in order
    snapshotPromise,     \* state of the promise buildHolderSnapshot returned
    windows              \* history: the windows queried so far, in order

svars == <<chain, blockNumber, chunkSize, start, events, holders,
           activeHolders, spc, foldedLog, snapshotPromise, windows>>

VARIABLES
    marketWinners,       \* this.marketWinners: marketId -> winnerData
    trackCall,           \* arguments of the last trackMarketWinners call
    trackReturn          \* the value that call returned

wvars == <<marketWinners, trackCall, trackReturn>>

VARIABLES
    websocket,           \* this.websocket: index into conns, 0 for null
    conns,               \* state of every WebSocket object created so far
    wsReconnectAttempts, \* this.wsReconnectAttempts
    reconnectTimers,     \* bag of the delays of the pending setTimeout calls
    alive,               \* FALSE once a handler threw an uncaught exception
    gaveUp,              \* scheduleReconnect has logged "Giving up"
    stopped,             \* stopRealTimeTracking has closed a socket
    closedByStop,        \* the sockets stopRealTimeTracking closed
    subscriptions        \* per socket, the subscription messages sent on it

cvars == <<websocket, conns, wsReconnectAttempts, reconnectTimers, alive,
           gaveUp, stopped, closedByStop, subscriptions>>

VARIABLES
    realtimeCallbacks,   \* this.realtimeCallbacks, in insertion order
    addCount,            \* addRealtimeCallback calls since the last removal
    emissions,           \* number of notifyRealtimeUpdate calls so far
    lastNotify,          \* what the last notifyRealtimeUpdate call did
    failed,              \* callbacks that threw since they were last added
    subscribed,          \* history: callbacks added and not removed since
    lastSetCall          \* history: the last add/removeRealtimeCallback call

fvars == <<realtimeCallbacks, addCount, emissions, lastNotify, failed,
           subscribed, lastSetCall>>

VARIABLES
    activeEvents,        \* this.events.active, in insertion order
    arrived,             \* number of WebSocket messages received so far
    lastOp,              \* the kind of the last step that concerns markets
    lastMessage,         \* the last message received and its socket
    emitted,             \* the domain events the last message emitted
    saving               \* handleMarketResolution calls awaiting saveData

mvars == <<activeEvents, arrived, lastOp, lastMessage, emitted, saving>>

vars == <<dvars, svars, wvars, cvars, fvars, mvars>>

\* What each component leaves alone.
notDispatcher == <<svars, wvars, cvars, fvars, mvars>>
notSnapshot == <<dvars, wvars, cvars, fvars, mvars>>
notWinner == <<dvars, svars, cvars, fvars, mvars>>
notChannel == <<dvars, svars, wvars>>

Suspended == {"spacing", "inflight", "backoff"}

ActiveWorkers == {w \in ReqIds : pc[w] \in Suspended}
InFlight == {w \in ReqIds : pc[w] = "inflight"}

DispatchCount(id) ==
    Cardinality({i \in 1..Len(dispatchLog) : dispatchLog[i].id = id})

Settled(id) == resolveCalls[id] + rejectCalls[id] > 0

DispatcherIdle ==
    /\ requestQueue = <<>>
    /\ isProcessingQueue = FALSE
    /\ timeSinceLastRequest = delay   \* lastRequestTime = 0, long ago
    /\ calls = 0
    /\ pc = [w \in ReqIds |-> "none"]
    /\ cur = [w \in ReqIds |-> NoReq]
    /\ timer = [w \in ReqIds |-> 0]
    /\ budget = [id \in ReqIds |-> 0]
    /\ dispatchLog = <<>>
    /\ lastResult = "none"
    /\ all429 = [id \in ReqIds |-> TRUE]
    /\ resolveCalls = [id \in ReqIds |-> 0]
    /\ rejectCalls = [id \in ReqIds |-> 0]

\* try { this.lastRequestTime = Date.now(); ... await axios.get(url, ...)
StartDispatch(w, req) ==
    /\ timeSinceLastRequest' = 0
    /\ pc' = [pc EXCEPT ![w] = "inflight"]
    /\ cur' = [cur EXCEPT ![w] = req]
    /\ dispatchLog' = Append(dispatchLog, req)
    /\ UNCHANGED timer

\* The minimum-spacing test of one iteration.
NeedsSpacingMut(t) == FALSE
NeedsSpacing(t) == t < delay

\* setTimeout(resolve, this.rateLimits.delay - timeSinceLastRequest)
SpacingWaitMut(t) == (delay \div 2) - t
SpacingWait(t) == delay - t

\* One pass over the head of the while loop, entered with queue q:
\* the loop test, the shift, the spacing test and either the spacing
\* timer or the dispatch.
LoopHead(w, q) ==
    IF q = <<>>
    THEN /\ isProcessingQueue' = FALSE
         /\ requestQueue' = q
         /\ pc' = [pc EXCEPT ![w] = "returned"]
         /\ cur' = [cur EXCEPT ![w] = NoReq]
         /\ UNCHANGED <<timer, timeSinceLastRequest, dispatchLog>>
    ELSE /\ isProcessingQueue' = TRUE
         /\ requestQueue' = Tail(q)
         /\ IF NeedsSpacing(timeSinceLastRequest)
            THEN /\ pc' = [pc EXCEPT ![w] = "spacing"]
                 /\ cur' = [cur EXCEPT ![w] = Head(q)]
                 /\ timer' = [timer EXCEPT
                                 ![w] = SpacingWait(timeSinceLastRequest)]
                 /\ UNCHANGED <<timeSinceLastRequest, dispatchLog>>
            ELSE StartDispatch(w, Head(q))

\* if (this.isProcessingQueue || this.requestQueue.length === 0) return;
QueueGuardMut(q) == q # <<>>
QueueGuard(q) == ~isProcessingQueue /\ q # <<>>

\* makeRequest(url, retries): push, then the synchronous part of
\* processQueue up to its first await.
MakeRequest(n) ==
    /\ calls < MaxCalls
    /\ LET id == calls + 1
           q == Append(requestQueue, [id |-> id, retries |-> n])
       IN /\ calls' = id
          /\ budget' = [budget EXCEPT ![id] = n]
          /\ IF QueueGuard(q)
             THEN LoopHead(id, q)
             ELSE /\ requestQueue' = q
                  /\ pc' = [pc EXCEPT ![id] = "returned"]
                  /\ UNCHANGED <<isProcessingQueue, cur, timer,
                                 timeSinceLastRequest, dispatchLog>>
    /\ UNCHANGED <<lastResult, all429, resolveCalls, rejectCalls>>
    /\ UNCHANGED notDispatcher

\* The spacing timer fires; the worker dispatches.
SpacingDone(w) ==
    /\ pc[w] = "spacing"
    /\ timer[w] <= 0
    /\ StartDispatch(w, cur[w])
    /\ UNCHANGED <<requestQueue, isProcessingQueue, calls, budget,
                   lastResult, all429, resolveCalls, rejectCalls>>
    /\ UNCHANGED notDispatcher

\* axios.get settles with result r.
Response(w, r) ==
    /\ pc[w] = "inflight"
    /\ lastResult' = r
    /\ all429' = [all429 EXCEPT ![cur[w].id] = @ /\ r = "e429"]
    /\ IF r = "ok"
       THEN /\ resolveCalls' = [resolveCalls EXCEPT ![cur[w].id] = @ + 1]
            /\ UNCHANGED rejectCalls
            /\ LoopHead(w, requestQueue)
       ELSE /\ UNCHANGED resolveCalls
            /\ rejectCalls' = IF RejectsCaller(cur[w].retries, r)
                              THEN [rejectCalls EXCEPT ![cur[w].id] = @ + 1]
                              ELSE rejectCalls
            /\ IF ShouldRetry(cur[w].retries, r)
               THEN /\ pc' = [pc EXCEPT ![w] = "backoff"]
                    /\ timer' = [timer EXCEPT ![w] = RetryBackoff]
                    /\ UNCHANGED <<requestQueue, isProcessingQueue, cur,
                                   timeSinceLastRequest, dispatchLog>>
               ELSE LoopHead(w, requestQueue)
    /\ UNCHANGED <<calls, budget>>
    /\ UNCHANGED notDispatcher

\* this.requestQueue.unshift({ url, retries: retries - 1, resolve, reject })
RequeueLost(q, req) == q
RequeueMut(q, req) == Append(q, [id |-> req.id, retries |-> req.retries - 1])
Requeue(q, req) == <<[id |-> req.id, retries |-> req.retries - 1]>> \o q

\* The backoff timer fires: the request is re-queued and the loop goes on.
BackoffDone(w) ==
    /\ pc[w] = "backoff"
    /\ timer[w] <= 0
    /\ LoopHead(w, Requeue(requestQueue, cur[w]))
    /\ UNCHANGED <<calls, budget, lastResult, all429, resolveCalls,
                   rejectCalls>>
    /\ UNCHANGED notDispatcher

Min(a, b) == IF a < b THEN a ELSE b
Max(a, b) == IF a > b THEN a ELSE b

TickSteps == {delay \div 2, delay, RetryBackoff}

\* Time passes by d: Date.now() grows, every running timer comes d closer.
Tick(d) ==
    /\ timeSinceLastRequest' = Min(timeSinceLastRequest + d, delay)
    /\ timer' = [w \in ReqIds |->
                   IF pc[w] \in {"spacing", "backoff"}
                   THEN Max(timer[w] - d, 0) ELSE timer[w]]
    /\ UNCHANGED <<requestQueue, isProcessingQueue, calls, pc, cur, budget,
                   dispatchLog, lastResult, all429, resolveCalls,
                   rejectCalls>>
    /\ UNCHANGED notDispatcher

(***************************************************************************)
(* Balance Reconstructor: PolymarketWinnerTracker.buildHolderSnapshot.     *)
(***************************************************************************)
Addresses == {"A", "B"}
ZeroAddress == "0x0"          \* ethers.ZeroAddress

\* The TransferSingle events the contract can emit for the position: a mint
\* (from = zero address), a burn (to = zero address) or a transfer.
Transfers ==
    {e \in [from : Addresses \cup {ZeroAddress},
            to : Addresses \cup {ZeroAddress},
            value : 0..MaxAmount,
            block : 0..MaxBlock] :
        ~(e.from = ZeroAddress /\ e.to = ZeroAddress)}

\* new Map()
EmptyMap == [a \in {} |-> 0]

\* holders.get(a) || 0
Get(h, a) == IF a \in DOMAIN h THEN h[a] ELSE 0

\* holders.set(a, v)
MapSet(h, a, v) == [x \in DOMAIN h \cup {a} |-> IF x = a THEN v ELSE h[x]]

\* holders.delete(a)
MapDelete(h, a) == [x \in DOMAIN h \ {a} |-> h[x]]

\* if (newBalance <= 0) holders.delete(from) else holders.set(from, newBalance)
Debit(h, a, amount) ==
    LET newBalance == Get(h, a) - amount
    IN IF newBalance <= 0 THEN MapDelete(h, a) ELSE MapSet(h, a, newBalance)

\* holders.set(to, currentBalance + amount)
CreditMut(h, a, amount) == MapSet(h, a, amount)
Credit(h, a, amount) == MapSet(h, a, Get(h, a) + amount)

\* The body of the loop over the events of a window.
ApplyEvent(h, e) ==
    LET h1 == IF e.from # ZeroAddress THEN Debit(h, e.from, e.value) ELSE h
    IN IF e.to # ZeroAddress THEN Credit(h1, e.to, e.value) ELSE h1

\* if (balance > 0) activeHolders.set(address, balance)
IsActiveMut(balance) == balance >= 0
IsActive(balance) == balance > 0

\* The loop that copies the positive entries into activeHolders.
FilterActive(h) == [a \in {x \in DOMAIN h : IsActive(h[x])} |-> h[a]]

\* const end = Math.min(start + chunkSize - 1, blockNumber)
WindowEndMut(s, size, bn) == Min(s + size, bn)
WindowEnd(s, size, bn) == Min(s + size - 1, bn)

\* this.contract.queryFilter(filter, start, end): the events of the blocks
\* start..end, in log order.
InWindow(e, s, t) == s <= e.block /\ e.block <= t
QueryFilter(s, t) == SelectSeq(chain, LAMBDA e : InWindow(e, s, t))

\* The window a query covers: the blocks start..end.
Window(s, size, bn) == [from |-> s, to |-> WindowEnd(s, size, bn)]

\* start += chunkSize
NextStartMut(s, size) == s + size + 1
NextStart(s, size) == s + size

\* for (const event of events) has run to its end; only then does the loop
\* over the windows go on.
WindowFoldedMut(ev) == TRUE
WindowFolded(ev) == ev = <<>>

\* catch (error) { ...; return new Map(); }: the async function's promise is
\* fulfilled, with an empty Map.
CatchSettles == "fulfilled"

SnapshotIdle ==
    /\ chain = <<>>
    /\ blockNumber = 0
    /\ chunkSize = 1
    /\ start = 0
    /\ events = <<>>
    /\ holders = EmptyMap
    /\ activeHolders = EmptyMap
    /\ spc = "idle"
    /\ foldedLog = <<>>
    /\ snapshotPromise = "none"
    /\ windows = <<>>

\* The contract emits a TransferSingle event; block numbers never decrease
\* along the log.
EmitTransfer(e) ==
    /\ spc = "idle"
    /\ Len(chain) < MaxEvents
    /\ chain # <<>> => chain[Len(chain)].block <= e.block
    /\ chain' = Append(chain, e)
    /\ UNCHANGED <<blockNumber, chunkSize, start, events, holders,
                   activeHolders, spc, foldedLog, snapshotPromise, windows>>
    /\ UNCHANGED notSnapshot

\* buildHolderSnapshot(positionId, bn) up to the first loop test.
BuildHolderSnapshot(bn, size) ==
    /\ spc = "idle"
    /\ blockNumber' = bn
    /\ chunkSize' = size
    /\ holders' = EmptyMap
    /\ start' = 0
    /\ spc' = "loop"
    /\ snapshotPromise' = "pending"
    /\ UNCHANGED <<chain, events, activeHolders, foldedLog, windows>>
    /\ UNCHANGED notSnapshot

\* start <= blockNumber: the window is queried and the query returns.
QueryWindow ==
    /\ spc = "loop"
    /\ start <= blockNumber
    /\ events' = QueryFilter(start, WindowEnd(start, chunkSize, blockNumber))
    /\ windows' = Append(windows, Window(start, chunkSize, blockNumber))
    /\ spc' = "fold"
    /\ UNCHANGED <<chain, blockNumber, chunkSize, start, holders,
                   activeHolders, foldedLog, snapshotPromise>>
    /\ UNCHANGED notSnapshot

\* The query throws: the catch block returns new Map().
QueryFails ==
    /\ spc = "loop"
    /\ start <= blockNumber
    /\ windows' = Append(windows, Window(start, chunkSize, blockNumber))
    /\ activeHolders' = EmptyMap
    /\ spc' = "caught"
    /\ snapshotPromise' = CatchSettles
    /\ UNCHANGED <<chain, blockNumber, chunkSize, start, events, holders,
                   foldedLog>>
    /\ UNCHANGED notSnapshot

\* One iteration of for (const event of events).
FoldEvent ==
    /\ spc = "fold"
    /\ events # <<>>
    /\ holders' = ApplyEvent(holders, Head(events))
    /\ events' = Tail(events)
    /\ foldedLog' = Append(foldedLog, Head(events))
    /\ UNCHANGED <<chain, blockNumber, chunkSize, start, activeHolders, spc,
                   snapshotPromise, windows>>
    /\ UNCHANGED notSnapshot

\* The events of the window are exhausted: start += chunkSize.
NextWindow ==
    /\ spc = "fold"
    /\ WindowFolded(events)
    /\ start' = NextStart(start, chunkSize)
    /\ spc' = "loop"
    /\ UNCHANGED <<chain, blockNumber, chunkSize, events, holders,
                   activeHolders, foldedLog, snapshotPromise, windows>>
    /\ UNCHANGED notSnapshot

\* start > blockNumber: the positive entries are copied and returned.
ReturnActiveHolders ==
    /\ spc = "loop"
    /\ start > blockNumber
    /\ activeHolders' = FilterActive(holders)
    /\ spc' = "returned"
    /\ snapshotPromise' = "fulfilled"
    /\ UNCHANGED <<chain, blockNumber, chunkSize, start, events, holders,
                   foldedLog, windows>>
    /\ UNCHANGED notSnapshot

SnapshotNext ==
    \/ \E e \in Transfers : EmitTransfer(e)
    \/ \E bn \in 0..MaxBlock, size \in 1..MaxChunk : BuildHolderSnapshot(bn, size)
    \/ QueryWindow
    \/ QueryFails
    \/ FoldEvent
    \/ NextWindow
    \/ ReturnActiveHolders

\* this.marketWinners = new Map(); no call made yet.
NoCall == [none |-> TRUE]
Null == [null |-> TRUE]

WinnerIdle ==
    /\ marketWinners = EmptyMap
    /\ trackCall = NoCall
    /\ trackReturn = NoCall

Callbacks == {"cb1", "cb2"}

\* No notifyRealtimeUpdate call yet, no message received yet.
NoEvent == [type |-> "none", cause |-> 0]
NoSetCall == [op |-> "none", cb |-> "none", member |-> FALSE]
NoNotify ==
    [event |-> NoEvent, invoked |-> <<>>, throwers |-> {}, threw |-> FALSE,
     adds |-> [cb \in Callbacks |-> 0], after |-> NoSetCall]
NoMessage == [kind |-> "none"]

\* this.websocket = null; this.wsReconnectAttempts = 0;
\* this.realtimeCallbacks = new Set();
ChannelIdle ==
    /\ websocket = 0
    /\ conns = <<>>
    /\ wsReconnectAttempts = 0
    /\ reconnectTimers = EmptyBag
    /\ alive = TRUE
    /\ gaveUp = FALSE
    /\ stopped = FALSE
    /\ closedByStop = {}
    /\ subscriptions = <<>>
    /\ realtimeCallbacks = <<>>
    /\ addCount = [cb \in Callbacks |-> 0]
    /\ emissions = 0
    /\ lastNotify = NoNotify
    /\ failed = {}
    /\ subscribed = {}
    /\ lastSetCall = NoSetCall

\* this.events = { active: new Map(), ... }
MarketsIdle ==
    /\ activeEvents = <<>>
    /\ arrived = 0
    /\ lastOp = [kind |-> "none", tick |-> 0]
    /\ lastMessage = [msg |-> NoMessage, conn |-> 0]
    /\ emitted = <<>>
    /\ saving = <<>>

Init ==
    DispatcherIdle /\ SnapshotIdle /\ WinnerIdle /\ ChannelIdle /\ MarketsIdle

SnapshotSpec == Init /\ [][SnapshotNext]_vars

DispatchNext ==
    \/ \E n \in 0..MaxRetries : MakeRequest(n)
    \/ \E w \in ReqIds : SpacingDone(w)
    \/ \E w \in ReqIds, r \in Results : Response(w, r)
    \/ \E w \in ReqIds : BackoffDone(w)
    \/ \E d \in TickSteps : Tick(d)

DispatchSpec == Init /\ [][DispatchNext]_vars

\* Every upstream call returns, every timer fires, time passes.
DispatchFairSpec ==
    /\ DispatchSpec
    /\ WF_vars(\E w \in ReqIds : SpacingDone(w))
    /\ WF_vars(\E w \in ReqIds, r \in Results : Response(w, r))
    /\ WF_vars(\E w \in ReqIds : BackoffDone(w))
    /\ WF_vars(\E d \in TickSteps : Tick(d))

(***************************************************************************)
(* Request Dispatcher: properties.                                         *)
(***************************************************************************)
Last(q) == q[Len(q)]

\* The request of id is the one an axios.get is outstanding for.
Dispatching(id) == \E w \in InFlight : cur[w].id = id

\* The request of id waits in the queue or is held by a worker.
Pending(id) ==
    \/ \E i \in 1..Len(requestQueue) : requestQueue[i].id = id
    \/ \E w \in ActiveWorkers : cur[w].id = id

\* Pending(id) in the state a step leads to.
PendingNext(id) ==
    \/ \E i \in 1..Len(requestQueue') : requestQueue'[i].id = id
    \/ \E w \in ReqIds : pc'[w] \in Suspended /\ cur'[w].id = id

\* Number of axios.get calls that have settled.
Completed == Len(dispatchLog) - Cardinality(InFlight)

\* A new axios.get starts in this step.
Dispatches == Len(dispatchLog') > Len(dispatchLog)

\* C1: a request with retry budget n whose every dispatch fails with a 429
\* is dispatched exactly n+1 times and is rejected after the last of them,
\* not before; no request is dispatched more than n+1 times.
C1_RetryBudget ==
    \A id \in ReqIds :
        /\ DispatchCount(id) <= budget[id] + 1
        /\ (id <= calls /\ all429[id]) =>
              /\ Settled(id) <=> /\ DispatchCount(id) = budget[id] + 1
                                 /\ ~Dispatching(id)
              /\ Settled(id) => rejectCalls[id] = 1 /\ resolveCalls[id] = 0

C1_Witness ==
    \E id \in ReqIds :
        /\ budget[id] = MaxRetries
        /\ all429[id]
        /\ DispatchCount(id) = MaxRetries + 1
        /\ rejectCalls[id] = 1

\* C2: at most one processQueue loop is active and at most one request is
\* in flight, whenever makeRequest is called.
C2_SingleWorker ==
    /\ Cardinality(ActiveWorkers) <= 1
    /\ Cardinality(InFlight) <= 1
    /\ isProcessingQueue <=> ActiveWorkers # {}

C2_Witness ==
    /\ calls = MaxCalls
    /\ pc[1] = "backoff"
    /\ \A w \in 2..MaxCalls : pc[w] = "returned"
    /\ Len(requestQueue) = MaxCalls - 1

\* C3: resolve and reject are called at most once per request in total, and
\* once the worker has gone idle exactly once for every request enqueued.
C3_SettledOnce ==
    \A id \in ReqIds :
        /\ resolveCalls[id] + rejectCalls[id] <= 1
        /\ (id <= calls /\ ~isProcessingQueue) =>
              resolveCalls[id] + rejectCalls[id] = 1

C3_Witness ==
    /\ calls = MaxCalls
    /\ ~isProcessingQueue
    /\ \E id \in ReqIds :
          /\ budget[id] > 0
          /\ DispatchCount(id) = budget[id] + 1
          /\ resolveCalls[id] = 1

\* C4: an idle worker leaves no request in the queue, and every request
\* enqueued is eventually resolved or rejected.
C4_NoStranding ==
    /\ [](~isProcessingQueue => requestQueue = <<>>)
    /\ \A id \in ReqIds : (calls >= id) ~> Settled(id)

C4_Witness ==
    /\ calls = MaxCalls
    /\ ~isProcessingQueue
    /\ pc[1] = "returned" /\ pc[MaxCalls] = "returned"
    /\ \A id \in ReqIds : Settled(id)
    /\ Len(dispatchLog) > MaxCalls

\* C5: a dispatch that is not the first starts at least delay after the
\* start of the dispatch before it.
C5_MinSpacing ==
    [][(Dispatches /\ dispatchLog # <<>>) => timeSinceLastRequest >= delay]_vars

C5_Witness ==
    /\ dispatchLog # <<>>
    /\ \E w \in ReqIds : pc[w] = "spacing" /\ timer[w] = 0
    /\ timeSinceLastRequest >= delay

C7_NoRetryOnTerminal ==
    [][\A w \in ReqIds :
         (/\ pc[w] = "inflight"
          /\ Completed' = Completed + 1
          /\ lastResult' \in {"timeout", "upstream"})
         => /\ rejectCalls'[cur[w].id] = rejectCalls[cur[w].id] + 1
            /\ resolveCalls'[cur[w].id] = 0
            /\ ~PendingNext(cur[w].id)
            /\ IF requestQueue = <<>>
               THEN pc'[w] = "returned" /\ ~isProcessingQueue'
               ELSE /\ pc'[w] \in {"spacing", "inflight"}
                    /\ cur'[w] = Head(requestQueue)
                    /\ requestQueue' = Tail(requestQueue)
      ]_vars

C7_Witness ==
    /\ lastResult \in {"timeout", "upstream"}
    /\ Completed = 1
    /\ budget[1] = MaxRetries
    /\ rejectCalls[1] = 1
    /\ \E w \in ActiveWorkers : cur[w].id = 2

(***************************************************************************)
(* Balance Reconstructor: properties.                                      *)
(***************************************************************************)
\* The events with sequence number in [0, blockNumber], in log order.
InRange == SelectSeq(chain, LAMBDA e : e.block <= blockNumber)

RECURSIVE Received(_, _, _)
\* Total amount credited to a by the first k events of log.
Received(a, log, k) ==
    IF k = 0 THEN 0
    ELSE Received(a, log, k - 1) + (IF log[k].to = a THEN log[k].value ELSE 0)

RECURSIVE Sent(_, _, _)
\* Total amount debited from a by the first k events of log.
Sent(a, log, k) ==
    IF k = 0 THEN 0
    ELSE Sent(a, log, k - 1) + (IF log[k].from = a THEN log[k].value ELSE 0)

Net(a, log, k) == Received(a, log, k) - Sent(a, log, k)

\* No event of log debits a by more than a had received less sent before it.
NeverOverdrawn(a, log) ==
    \A k \in 1..Len(log) :
        log[k].from = a => Net(a, log, k - 1) >= log[k].value

RECURSIVE FoldAll(_, _)
\* The ledger after folding the first k events of InRange in one pass.
FoldAll(log, k) ==
    IF k = 0 THEN EmptyMap ELSE ApplyEvent(FoldAll(log, k - 1), log[k])

\* {address -> received - sent | received - sent > 0}
ReferenceLedger(log) ==
    [a \in {x \in Addresses : Net(x, log, Len(log)) > 0} |->
        Net(a, log, Len(log))]

\* C8 as stated: every entry of the returned ledger equals received - sent
\* and is strictly positive, for all event sequences.
C8_BalanceIsNetOriginal ==
    spc = "returned" =>
        \A a \in DOMAIN activeHolders :
            /\ activeHolders[a] = Net(a, InRange, Len(InRange))
            /\ activeHolders[a] > 0

\* C8 amended: every entry of the returned ledger is strictly positive and
\* at least received - sent; it equals received - sent for every address
\* that no event debits by more than it held.
C8_BalanceIsNet ==
    spc = "returned" =>
        \A a \in DOMAIN activeHolders :
            /\ activeHolders[a] > 0
            /\ activeHolders[a] >= Net(a, InRange, Len(InRange))
            /\ NeverOverdrawn(a, InRange) =>
                  activeHolders[a] = Net(a, InRange, Len(InRange))

C8_Witness ==
    /\ spc = "returned"
    /\ Len(InRange) = MaxEvents
    /\ \E a \in DOMAIN activeHolders :
          /\ ~NeverOverdrawn(a, InRange)
          /\ activeHolders[a] > Net(a, InRange, Len(InRange))
    /\ \E a \in DOMAIN activeHolders :
          /\ NeverOverdrawn(a, InRange)
          /\ activeHolders[a] = Received(a, InRange, Len(InRange))

\* C9: whatever the chunk size, the events of [0, blockNumber] are folded
\* once each in log order, and the ledger returned is the one a single
\* pass over them gives.
C9_ChunkInvariant ==
    spc = "returned" =>
        /\ foldedLog = InRange
        /\ activeHolders = FilterActive(FoldAll(InRange, Len(InRange)))

C9_Witness ==
    /\ spc = "returned"
    /\ chunkSize <= blockNumber
    /\ Len(InRange) >= 2
    /\ InRange[1].block < InRange[Len(InRange)].block
    /\ Len(chain) = MaxEvents
    /\ activeHolders # EmptyMap

\* C10: when no sender is debited more than it holds, the returned ledger
\* is exactly {address -> received - sent | received - sent > 0}; a holder
\* debited down to 0 is absent.
C10_ReferenceLedger ==
    (spc = "returned" /\ \A a \in Addresses : NeverOverdrawn(a, InRange))
        => activeHolders = ReferenceLedger(InRange)

C10_Witness ==
    /\ spc = "returned"
    /\ \A a \in Addresses : NeverOverdrawn(a, InRange)
    /\ Len(InRange) = 2
    /\ InRange[1] = [from |-> ZeroAddress, to |-> "A", value |-> MaxAmount,
                     block |-> 0]
    /\ InRange[2].from = "A" /\ InRange[2].to = "B"
    /\ InRange[2].value = MaxAmount
    /\ activeHolders = [a \in {"B"} |-> MaxAmount]

\* A step in which buildHolderSnapshot issues the query of a window.
QueryIssued == spc = "loop" /\ spc' \in {"fold", "caught"}

\* C22: every window query of buildHolderSnapshot is issued through the
\* Request Dispatcher: the step that issues it puts a request into the
\* dispatcher's queue or dispatches one.
C22_ThroughDispatcher ==
    [][QueryIssued =>
          (requestQueue' # requestQueue \/ dispatchLog' # dispatchLog)]_vars

\* C30: at every point of the fold, between two events and between two
\* windows included, every entry of the ledger is strictly positive.
C30_PositiveMidFold ==
    \A a \in DOMAIN holders : holders[a] > 0

\* The windows that contain the block n.
WindowsOf(n) ==
    {i \in 1..Len(windows) : windows[i].from <= n /\ n <= windows[i].to}

\* C31: the windows buildHolderSnapshot queries start at 0, are contiguous
\* and disjoint, span at most chunkSize blocks each and never go beyond the
\* cutoff; when the call returns, the last one ends at the cutoff and every
\* block of [0, cutoff] lies in exactly one window.
C31_WindowsPartition ==
    /\ \A i \in 1..Len(windows) :
          /\ 0 <= windows[i].from
          /\ windows[i].from <= windows[i].to
          /\ windows[i].to - windows[i].from + 1 <= chunkSize
          /\ windows[i].to <= blockNumber
    /\ windows # <<>> => windows[1].from = 0
    /\ \A i \in 1..(Len(windows) - 1) :
          windows[i + 1].from = windows[i].to + 1
    /\ spc = "returned" =>
          /\ windows # <<>>
          /\ windows[Len(windows)].to = blockNumber
          /\ \A n \in 0..blockNumber : Cardinality(WindowsOf(n)) = 1

C31_Witness ==
    /\ spc = "returned"
    /\ blockNumber = 2
    /\ chunkSize = 2
    /\ windows = <<[from |-> 0, to |-> 1], [from |-> 2, to |-> 2]>>

\* The events of the log in the blocks before block n.
Before(n) == SelectSeq(chain, LAMBDA e : e.block < n)

\* C32: the windows of one reconstruction are queried one after the other
\* in increasing order: when the query of a window is issued, every
\* earlier window ends before it starts, no event of an earlier window is
\* still waiting to be folded, and the events folded are exactly those of
\* the blocks before the window.
C32_SequentialWindows ==
    [][QueryIssued =>
          /\ Len(windows') = Len(windows) + 1
          /\ \A i \in 1..Len(windows) : windows[i].to < windows'[Len(windows')].from
          /\ events = <<>>
          /\ foldedLog = Before(windows'[Len(windows')].from)]_vars

C32_Witness ==
    /\ spc = "fold"
    /\ Len(windows) = 2
    /\ foldedLog # <<>>
    /\ events # <<>>

(***************************************************************************)
(* Winner computation: PolymarketWinnerTracker.trackMarketWinners.         *)
(***************************************************************************)
MarketIds == {"m1", "m2"}
Outcomes == {"YES", "NO"}

\* getPositionId(marketId, outcome): logs that the mapping is not
\* implemented and returns null.
GetPositionIdMut(marketId, outcome) == [id |-> "p1"]
GetPositionId(marketId, outcome) == Null

\* The events of log in the blocks 0..bn.
UpTo(log, bn) == SelectSeq(log, LAMBDA e : e.block <= bn)

\* provider.getBlockNumber(): the head of the chain.
GetBlockNumber(log) == IF log = <<>> THEN 0 ELSE log[Len(log)].block

\* resolutionBlockNumber || await this.provider.getBlockNumber()
ResolutionBlock(rb, log) == IF rb # 0 THEN rb ELSE GetBlockNumber(log)

RECURSIVE SumOver(_, _)
\* Array.from(holders.values()).reduce((sum, balance) => sum + balance, 0)
SumOver(h, S) ==
    IF S = {} THEN 0
    ELSE LET a == CHOOSE x \in S : TRUE IN h[a] + SumOver(h, S \ {a})

TotalPayout(h) == SumOver(h, DOMAIN h)

\* const winnerData = { ... } (the timestamp is left out).
WinnerData(marketId, outcome, positionId, bn, h) ==
    [marketId |-> marketId,
     winningOutcome |-> outcome,
     positionId |-> positionId,
     resolutionBlock |-> bn,
     winners |-> {[address |-> a, winningTokens |-> h[a], payoutUSDC |-> h[a]] :
                    a \in DOMAIN h},
     totalPayout |-> TotalPayout(h),
     winnerCount |-> Cardinality(DOMAIN h)]

\* What buildHolderSnapshot(positionId, bn) resolves with: the ledger of
\* the events up to bn, or the empty Map of its catch block when a window
\* query failed.
SnapshotResult(log, bn, queryFailed) ==
    IF queryFailed THEN EmptyMap
    ELSE FilterActive(FoldAll(UpTo(log, bn), Len(UpTo(log, bn))))

\* How a call can fail after the position id: provider.getBlockNumber()
\* throws, or a window query of buildHolderSnapshot throws.
Failures == {"none", "blockNumber", "query"}

\* A history record of a call: its arguments, the log at the call, the way
\* it failed and the lookups it reached.
Call(marketId, outcome, rb, failure, reached) ==
    [marketId |-> marketId, winningOutcome |-> outcome,
     resolutionBlockNumber |-> rb, log |-> chain, failure |-> failure,
     reached |-> reached]

\* The body of trackMarketWinners after the position id check: block
\* number, snapshot, record, this.marketWinners.set, return; the catch
\* block returns null.  getBlockNumber is called only when no resolution
\* block was passed.
WinnerBody(marketId, outcome, positionId, rb, failure) ==
    /\ failure = "blockNumber" => rb = 0
    /\ IF failure = "blockNumber"
       THEN /\ trackCall' = Call(marketId, outcome, rb, failure,
                                 {"getBlockNumber"})
            /\ trackReturn' = Null
            /\ UNCHANGED marketWinners
       ELSE LET bn == ResolutionBlock(rb, chain)
                h == SnapshotResult(chain, bn, failure = "query")
                winnerData ==
                    WinnerData(marketId, outcome, positionId, bn, h)
            IN /\ trackCall' =
                     Call(marketId, outcome, rb, failure,
                          IF rb = 0
                          THEN {"getBlockNumber", "buildHolderSnapshot"}
                          ELSE {"buildHolderSnapshot"})
               /\ marketWinners' = MapSet(marketWinners, marketId,
                                          winnerData)
               /\ trackReturn' = winnerData

\* trackMarketWinners(marketId, winningOutcome, resolutionBlockNumber).
\* The position id is null, so the call returns before its second await.
TrackMarketWinners(marketId, outcome, rb) ==
    /\ LET positionId == GetPositionId(marketId, outcome)
       IN IF positionId = Null
          THEN /\ trackCall' = Call(marketId, outcome, rb, "position", {})
               /\ trackReturn' = Null
               /\ UNCHANGED marketWinners
          ELSE \E failure \in Failures :
                  WinnerBody(marketId, outcome, positionId, rb, failure)
    /\ UNCHANGED notWinner

\* trackMarketWinners from its block number lookup on, for a position id
\* that is not null, as a market-specific getPositionId returns it.
PositionIds == {[id |-> "p1"]}
TrackMarketWinnersWith(marketId, outcome, positionId, rb, failure) ==
    /\ WinnerBody(marketId, outcome, positionId, rb, failure)
    /\ UNCHANGED notWinner

\* getMarketWinners(marketId)
GetMarketWinners(marketId) ==
    IF marketId \in DOMAIN marketWinners THEN marketWinners[marketId] ELSE Null

\* The transfers of the logs the winner computation is run on: mints and
\* transfers of MaxAmount tokens to an address.
WinnerTransfers ==
    {e \in Transfers : e.value = MaxAmount /\ e.to # ZeroAddress}

WinnerNext ==
    \/ \E e \in WinnerTransfers : EmitTransfer(e)
    \/ \E m \in MarketIds, o \in Outcomes, rb \in 0..MaxBlock :
          TrackMarketWinners(m, o, rb)

WinnerSpec == Init /\ [][WinnerNext]_vars

(***************************************************************************)
(* Winner computation: properties.                                         *)
(***************************************************************************)
\* The ledger a winner computation is about: the positive balances after
\* the events up to the resolution block of the call.
LedgerOfCall ==
    LET log == UpTo(trackCall.log,
                    ResolutionBlock(trackCall.resolutionBlockNumber,
                                    trackCall.log))
    IN FilterActive(FoldAll(log, Len(log)))

\* The winner record the ledger h calls for.
RecordMatches(r, h) ==
    /\ r.winners = {[address |-> a, winningTokens |-> h[a],
                     payoutUSDC |-> h[a]] : a \in DOMAIN h}
    /\ r.winnerCount = Cardinality(DOMAIN h)
    /\ r.totalPayout = SumOver(h, DOMAIN h)

SingleMint ==
    <<[from |-> ZeroAddress, to |-> "A", value |-> MaxAmount, block |-> 0]>>

\* C11: the record a winner computation produces has one entry per ledger
\* entry with payout = tokens = balance, winnerCount = ledger size and
\* totalPayout = sum of the balances; a single mint to A gives winnerCount
\* 1, totalPayout the minted amount and one entry for A.
C11_WinnerRecord ==
    trackCall # NoCall =>
        /\ trackReturn # Null => RecordMatches(trackReturn, LedgerOfCall)
        /\ trackCall.log = SingleMint =>
              /\ trackReturn # Null
              /\ trackReturn.winnerCount = 1
              /\ trackReturn.totalPayout = MaxAmount
              /\ trackReturn.winners =
                    {[address |-> "A", winningTokens |-> MaxAmount,
                      payoutUSDC |-> MaxAmount]}

\* C12: when a window query fails, buildHolderSnapshot reports the failure:
\* its promise is not fulfilled with a ledger, partial or empty.
C12_FailureReported ==
    spc = "caught" => snapshotPromise = "rejected"

\* C13: a winner computation over a log with no transfer events returns a
\* record with no winners, winnerCount 0 and totalPayout 0, which is not
\* the null a failed computation returns.
C13_EmptyIsSuccess ==
    (trackCall # NoCall /\ trackCall.log = <<>>) =>
        /\ trackReturn # Null
        /\ trackReturn.winners = {}
        /\ trackReturn.winnerCount = 0
        /\ trackReturn.totalPayout = 0

\* C35: every trackMarketWinners call returns null without having reached
\* the block number lookup or the snapshot, and stores nothing: the store
\* is empty in every state and getMarketWinners returns null for every
\* market.
C35_StubReturnsNull ==
    /\ marketWinners = EmptyMap
    /\ \A m \in MarketIds : GetMarketWinners(m) = Null
    /\ trackCall # NoCall =>
          /\ trackReturn = Null
          /\ trackCall.reached = {}

\* A call made with a resolution block, on a log that holds a mint.
C35_Witness ==
    /\ trackCall # NoCall
    /\ trackCall.resolutionBlockNumber = MaxBlock
    /\ Len(trackCall.log) = MaxEvents
    /\ trackCall.log[1].from = ZeroAddress
    /\ trackReturn = Null

(***************************************************************************)
(* Winner computation past the position id: the block number lookup, the   *)
(* snapshot and the store of trackMarketWinners.                           *)
(***************************************************************************)
PayoutNext ==
    \/ \E e \in WinnerTransfers : EmitTransfer(e)
    \/ \E p \in PositionIds, rb \in 0..MaxBlock, failure \in Failures :
          TrackMarketWinnersWith("m1", "YES", p, rb, failure)

PayoutSpec == Init /\ [][PayoutNext]_vars

\* A step of a trackMarketWinners call.
Tracks ==
    \/ trackCall' # trackCall
    \/ trackReturn' # trackReturn
    \/ marketWinners' # marketWinners

ConnIds == 1..Len(conns)

\* const delay = this.reconnectDelay * Math.pow(2, this.wsReconnectAttempts - 1)
ReconnectDelayForMut(k) == reconnectDelay * k
ReconnectDelayFor(k) == reconnectDelay * 2^(k - 1)

\* scheduleReconnect()
ScheduleReconnect ==
    IF wsReconnectAttempts >= maxReconnectAttempts
    THEN /\ gaveUp' = TRUE
         /\ UNCHANGED <<wsReconnectAttempts, reconnectTimers>>
    ELSE /\ wsReconnectAttempts' = wsReconnectAttempts + 1
         /\ reconnectTimers' =
                reconnectTimers
                (+) SetToBag({ReconnectDelayFor(wsReconnectAttempts + 1)})
         /\ UNCHANGED gaveUp

\* connectWebSocket(): this.websocket = new WebSocket(this.wsUrl) and the
\* registration of the four handlers.
ConnectWebSocket ==
    /\ conns' = Append(conns, "connecting")
    /\ websocket' = Len(conns) + 1
    /\ subscriptions' = Append(subscriptions, 0)

\* startRealTimeTracking() -> initializeWebSocket(), called once, by
\* startScheduler.
StartRealTimeTracking ==
    /\ alive
    /\ conns = <<>>
    /\ enableRealtime
    /\ ConnectWebSocket
    /\ UNCHANGED <<wsReconnectAttempts, reconnectTimers, alive, gaveUp,
                   stopped, closedByStop>>
    /\ UNCHANGED <<notChannel, fvars, mvars>>

\* The setTimeout callback of scheduleReconnect: this.connectWebSocket().
ReconnectTimerFires(d) ==
    /\ alive
    /\ BagIn(d, reconnectTimers)
    /\ Len(conns) < MaxConns
    /\ reconnectTimers' = reconnectTimers (-) SetToBag({d})
    /\ ConnectWebSocket
    /\ UNCHANGED <<wsReconnectAttempts, alive, gaveUp, stopped, closedByStop>>
    /\ UNCHANGED <<notChannel, fvars, mvars>>

\* this.websocket.send(...) in the 'open' handler: the socket the
\* subscription goes to is this.websocket, whatever that is by now.
SubscriptionTarget(c) == websocket

\* The 'open' handler of socket c.  The send throws when its target is null
\* or still connecting, and nothing catches it; on a socket that is
\* closing or closed it sends nothing.
WsOpen(c) ==
    /\ alive
    /\ conns[c] = "connecting"
    /\ conns' = [conns EXCEPT ![c] = "open"]
    /\ wsReconnectAttempts' = 0
    /\ LET target == SubscriptionTarget(c)
       IN /\ alive' = (target # 0 /\ conns'[target] # "connecting")
          /\ subscriptions' =
                IF target # 0 /\ conns'[target] = "open"
                THEN [subscriptions EXCEPT ![target] = @ + 1]
                ELSE subscriptions
    /\ UNCHANGED <<websocket, reconnectTimers, gaveUp, stopped, closedByStop>>
    /\ UNCHANGED <<notChannel, fvars, mvars>>

\* The 'error' handler of socket c.
WsError(c) ==
    /\ alive
    /\ conns[c] \in {"connecting", "open", "aborted"}
    /\ conns' = [conns EXCEPT ![c] = "failed"]
    /\ ScheduleReconnect
    /\ UNCHANGED <<websocket, alive, stopped, closedByStop, subscriptions>>
    /\ UNCHANGED <<notChannel, fvars, mvars>>

\* The 'close' handler of socket c.
WsClose(c) ==
    /\ alive
    /\ conns[c] \in {"open", "failed", "closing"}
    /\ conns' = [conns EXCEPT ![c] = "closed"]
    /\ ScheduleReconnect
    /\ UNCHANGED <<websocket, alive, stopped, closedByStop, subscriptions>>
    /\ UNCHANGED <<notChannel, fvars, mvars>>

\* What websocket.close() does to a socket in state st.
AfterClose(st) ==
    IF st = "connecting" THEN "aborted"
    ELSE IF st = "open" THEN "closing"
    ELSE st

\* stopRealTimeTracking(), when this.websocket is set.
StopRealTimeTracking ==
    /\ alive
    /\ websocket # 0
    /\ conns' = [conns EXCEPT ![websocket] = AfterClose(conns[websocket])]
    /\ closedByStop' =
          IF conns[websocket] \in {"connecting", "open"}
          THEN closedByStop \cup {websocket}
          ELSE closedByStop
    /\ websocket' = 0
    /\ stopped' = TRUE
    /\ UNCHANGED <<wsReconnectAttempts, reconnectTimers, alive, gaveUp,
                   subscriptions>>
    /\ UNCHANGED <<notChannel, fvars, mvars>>

StreamNext ==
    \/ StartRealTimeTracking
    \/ \E d \in BagToSet(reconnectTimers) : ReconnectTimerFires(d)
    \/ \E c \in ConnIds : WsOpen(c)
    \/ \E c \in ConnIds : WsError(c)
    \/ \E c \in ConnIds : WsClose(c)
    \/ StopRealTimeTracking

StreamSpec == Init /\ [][StreamNext]_vars

(***************************************************************************)
(* Streaming Update Channel: reconnect properties.                         *)
(***************************************************************************)
Pending_Timers == BagCardinality(reconnectTimers)
Pending_TimersNext == BagCardinality(reconnectTimers')

\* A step that schedules a reconnect, and the delay it schedules.
Schedules == Pending_TimersNext > Pending_Timers
ScheduledDelay ==
    CHOOSE d \in BagToSet(reconnectTimers') :
        CopiesIn(d, reconnectTimers') > CopiesIn(d, reconnectTimers)

\* A step that creates a WebSocket.
Connects == Len(conns') > Len(conns)

\* A step in which a socket opens.
Opens == \E c \in ConnIds : conns[c] = "connecting" /\ conns'[c] = "open"

\* C18: the attempt counter never exceeds maxReconnectAttempts, and once
\* scheduleReconnect has given up no reconnect is scheduled and no
\* connection attempt is made any more.
C18_GivenUpTerminal ==
    [][/\ wsReconnectAttempts' <= maxReconnectAttempts
       /\ gaveUp => (~Schedules /\ ~Connects)]_vars

\* C19: the k-th consecutive reconnect (k the counter after its increment)
\* is scheduled with delay reconnectDelay * 2^(k-1), that is 5000, 10000,
\* 20000 for k = 1, 2, 3; an open resets the counter, so the reconnect
\* after it is scheduled with the base delay again.
C19_BackoffDelay ==
    [][/\ Schedules =>
            /\ wsReconnectAttempts' = wsReconnectAttempts + 1
            /\ \E k \in 1..maxReconnectAttempts :
                  /\ k = wsReconnectAttempts'
                  /\ ScheduledDelay = reconnectDelay * 2^(k - 1)
                  /\ k = 1 => ScheduledDelay = 5000
                  /\ k = 2 => ScheduledDelay = 10000
                  /\ k = 3 => ScheduledDelay = 20000
       /\ Opens => wsReconnectAttempts' = 0
       /\ (~Schedules /\ ~Opens) =>
              wsReconnectAttempts' = wsReconnectAttempts]_vars

\* The third consecutive reconnect is pending, and after an open that
\* reset the counter the base delay was scheduled again.
C19_Witness ==
    /\ CopiesIn(20000, reconnectTimers) >= 1
    /\ CopiesIn(5000, reconnectTimers) >= 1
    /\ wsReconnectAttempts = 1
    /\ \E c \in ConnIds : conns[c] = "closed"

\* C20: after stopRealTimeTracking no WebSocket is created any more, and
\* the close of a socket that stop closed schedules no reconnect.
C20_StopIsFinal ==
    [][stopped =>
          /\ ~Connects
          /\ \A c \in closedByStop :
                conns'[c] # conns[c] => ~Schedules]_vars

\* The sockets that are connecting or open.
LiveConns == {c \in ConnIds : conns[c] \in {"connecting", "open"}}

\* C23: there is a single connection: the sockets that are connecting or
\* open and the pending reconnect timers are at most one in total.
C23_SingleConnection ==
    Cardinality(LiveConns) + Pending_Timers <= 1

\* The first event of the loss of socket c ('error', or 'close' without an
\* 'error' before it), and the 'close' that follows an 'error'.
FirstLossEvent(c) ==
    /\ conns[c] \in {"connecting", "open", "aborted", "closing"}
    /\ conns'[c] \in {"failed", "closed"}
CloseAfterError(c) == conns[c] = "failed" /\ conns'[c] = "closed"

\* C24: the loss of a connection schedules exactly one reconnect and
\* increments the counter by exactly one, also when the socket raises both
\* 'error' and 'close' for it: the first of the two events schedules it
\* (while attempts are left), the second schedules nothing.
C24_OneReconnectPerLoss ==
    [][\A c \in ConnIds :
          /\ (FirstLossEvent(c)
                /\ wsReconnectAttempts < maxReconnectAttempts) =>
                /\ Pending_TimersNext = Pending_Timers + 1
                /\ wsReconnectAttempts' = wsReconnectAttempts + 1
          /\ CloseAfterError(c) =>
                /\ ~Schedules
                /\ wsReconnectAttempts' = wsReconnectAttempts]_vars

\* C25: when a socket opens, the attempt counter is reset to zero and
\* exactly one subscription request is sent, on the socket that opened (so
\* before any message of that socket is handled), and on no other.
C25_SubscribeOnOpen ==
    [][\A c \in ConnIds :
          (conns[c] = "connecting" /\ conns'[c] = "open") =>
              /\ wsReconnectAttempts' = 0
              /\ alive'
              /\ subscriptions' = [subscriptions EXCEPT ![c] = 1]]_vars

(***************************************************************************)
(* Streaming Update Channel: fan-out to the realtime callbacks.            *)
(***************************************************************************)
Range(q) == {q[i] : i \in 1..Len(q)}

\* Set.prototype.add: a value already in the Set is not added again.
SetAddMut(cbs, cb) == Append(cbs, cb)
SetAdd(cbs, cb) == IF cb \in Range(cbs) THEN cbs ELSE Append(cbs, cb)

\* Set.prototype.delete
SetDeleteMut(cbs, cb) == cbs
SetDelete(cbs, cb) == SelectSeq(cbs, LAMBDA x : x # cb)

\* A history record of a call: the operation, its argument and whether the
\* argument was in the Set when the call was made.
SetCall(op, cb) ==
    [op |-> op, cb |-> cb, member |-> cb \in Range(realtimeCallbacks)]

\* addRealtimeCallback(callback)
AddRealtimeCallback(cb) ==
    /\ addCount[cb] < MaxAdds
    /\ realtimeCallbacks' = SetAdd(realtimeCallbacks, cb)
    /\ addCount' = [addCount EXCEPT ![cb] = @ + 1]
    /\ failed' = failed \ {cb}
    /\ subscribed' = subscribed \cup {cb}
    /\ lastSetCall' = SetCall("add", cb)
    /\ UNCHANGED <<emissions, lastNotify>>
    /\ UNCHANGED <<notChannel, cvars, mvars>>

\* removeRealtimeCallback(callback)
RemoveRealtimeCallback(cb) ==
    /\ realtimeCallbacks' = SetDelete(realtimeCallbacks, cb)
    /\ addCount' = [addCount EXCEPT ![cb] = 0]
    /\ subscribed' = subscribed \ {cb}
    /\ lastSetCall' = SetCall("remove", cb)
    /\ UNCHANGED <<emissions, lastNotify, failed>>
    /\ UNCHANGED <<notChannel, cvars, mvars>>

\* try { callback(data) } catch (error) { this.log(...) }
CatchesCallbackErrorMut == FALSE
CatchesCallbackError == TRUE

RECURSIVE Invoked(_, _)
\* The callbacks the loop of notifyRealtimeUpdate calls, in order, when the
\* callbacks in throwers throw.
Invoked(cbs, throwers) ==
    IF cbs = <<>> THEN <<>>
    ELSE IF Head(cbs) \in throwers /\ ~CatchesCallbackError
         THEN <<Head(cbs)>>
         ELSE <<Head(cbs)>> \o Invoked(Tail(cbs), throwers)

\* notifyRealtimeUpdate lets an exception of a callback out.
NotifyThrows(cbs, throwers) ==
    ~CatchesCallbackError /\ Range(cbs) \cap throwers # {}

(***************************************************************************)
(* Streaming Update Channel: the shared market state and the messages.     *)
(*                                                                         *)
(* An event of this.events.active is a record with its id, its markets     *)
(* (id, status, price) and the two counters the handlers write.  A price   *)
(* is a number, NoPrice for a market object without price property, or     *)
(* NaN.                                                                    *)
(***************************************************************************)
NoPrice == -1
NaN == -2

\* parseFloat(price)
ParseFloat(raw) ==
    CASE raw = "1" -> 1
      [] raw = "2" -> 2
      [] OTHER -> NaN

\* market.price || 0
OrZero(price) == IF price \in {NoPrice, NaN, 0} THEN 0 ELSE price

\* What the events endpoint can report: event e1 with the markets m1 and
\* m2, event e2 with a market m2 of its own, each market open or closed.
ApiEvent(id, marketIds, closed) ==
    [id |-> id,
     markets |-> [i \in 1..Len(marketIds) |->
                    [id |-> marketIds[i], closed |-> marketIds[i] \in closed]]]

ApiEvents ==
    {ApiEvent("e1", <<"m1", "m2">>, closed) : closed \in SUBSET {"m2"}}
    \cup {ApiEvent("e2", <<"m2">>, closed) : closed \in SUBSET {"m2"}}

\* The pages fetchEvents can resolve with: events with distinct ids.
ApiPages ==
    {<<e>> : e \in ApiEvents}
    \cup {p \in ApiEvents \X ApiEvents : p[1].id # p[2].id}

CountStatus(markets, status) ==
    Cardinality({i \in 1..Len(markets) : markets[i].status = status})

\* parseEventData(event), as far as the handlers read its result.
ParseEventData(event) ==
    LET markets == [i \in 1..Len(event.markets) |->
                      [id |-> event.markets[i].id,
                       status |-> IF event.markets[i].closed
                                  THEN "resolved" ELSE "active",
                       price |-> NoPrice]]
    IN [id |-> event.id,
        markets |-> markets,
        activeMarketsCount |-> CountStatus(markets, "active"),
        resolvedMarketsCount |-> CountStatus(markets, "resolved")]

\* this.events.active.set(eventData.id, eventData): an existing key keeps
\* its place in the iteration order, a new one goes last.
EventsSet(evs, eventData) ==
    IF \E k \in 1..Len(evs) : evs[k].id = eventData.id
    THEN [k \in 1..Len(evs) |->
            IF evs[k].id = eventData.id THEN eventData ELSE evs[k]]
    ELSE Append(evs, eventData)

RECURSIVE ApplyPage(_, _)
\* for (const event of events) { ... this.events.active.set(...) }
ApplyPage(evs, page) ==
    IF page = <<>> THEN evs
    ELSE ApplyPage(EventsSet(evs, ParseEventData(Head(page))), Tail(page))

\* eventData.markets.findIndex(m => m.id === marketId), 0 for not found.
MarketIndex(markets, marketId) ==
    IF \E i \in 1..Len(markets) : markets[i].id = marketId
    THEN CHOOSE i \in 1..Len(markets) :
            /\ markets[i].id = marketId
            /\ \A j \in 1..(i - 1) : markets[j].id # marketId
    ELSE 0

\* The events that have a market with this id.
Matching(evs, marketId) ==
    {k \in 1..Len(evs) : MarketIndex(evs[k].markets, marketId) # 0}

\* The first of a set of indices, as a set.
First(S) == {k \in S : \A j \in S : k <= j}

\* for (... of this.events.active) { if (market) { ...; break; } } in
\* updateMarketPrice: the events whose market is written.
PriceOwnersMut(evs, marketId) == Matching(evs, marketId)
PriceOwners(evs, marketId) == First(Matching(evs, marketId))

\* The same loop in handleMarketResolution.
ResolutionOwnersMut(evs, marketId) == Matching(evs, marketId)
ResolutionOwners(evs, marketId) == First(Matching(evs, marketId))

RECURSIVE Ascending(_)
\* The indices of S in iteration order.
Ascending(S) ==
    IF S = {} THEN <<>>
    ELSE LET k == CHOOSE x \in S : \A y \in S : x <= y
         IN <<k>> \o Ascending(S \ {k})

\* market.price = parseFloat(price)
UpdateMarketPrice(evs, marketId, raw) ==
    [k \in 1..Len(evs) |->
        IF k \in PriceOwners(evs, marketId)
        THEN [evs[k] EXCEPT
                !.markets[MarketIndex(evs[k].markets, marketId)].price =
                    ParseFloat(raw)]
        ELSE evs[k]]

\* The price_update events updateMarketPrice passes to
\* notifyRealtimeUpdate; cause is the arrival number of the message.
PriceUpdateEvents(evs, marketId, raw, cause) ==
    LET owners == Ascending(PriceOwners(evs, marketId))
    IN [n \in 1..Len(owners) |->
          LET ev == evs[owners[n]]
          IN [type |-> "price_update",
              eventId |-> ev.id,
              marketId |-> marketId,
              price |-> ParseFloat(raw),
              oldPrice |->
                  OrZero(ev.markets[MarketIndex(ev.markets, marketId)].price),
              cause |-> cause]]

\* market.status = 'resolved'; eventData.resolvedMarketsCount++;
\* eventData.activeMarketsCount--;
ResolveMarket(ev, marketId) ==
    [ev EXCEPT
        !.markets[MarketIndex(ev.markets, marketId)].status = "resolved",
        !.resolvedMarketsCount = @ + 1,
        !.activeMarketsCount = @ - 1]

HandleMarketResolution(evs, marketId) ==
    [k \in 1..Len(evs) |->
        IF k \in ResolutionOwners(evs, marketId)
        THEN ResolveMarket(evs[k], marketId)
        ELSE evs[k]]

\* The market_resolved events handleMarketResolution passes to
\* notifyRealtimeUpdate, with the counters after the update.
MarketResolvedEvents(evs, marketId, cause) ==
    LET owners == Ascending(ResolutionOwners(evs, marketId))
    IN [n \in 1..Len(owners) |->
          LET ev == ResolveMarket(evs[owners[n]], marketId)
          IN [type |-> "market_resolved",
              eventId |-> ev.id,
              marketId |-> marketId,
              status |-> "resolved",
              activeMarketsCount |-> ev.activeMarketsCount,
              resolvedMarketsCount |-> ev.resolvedMarketsCount,
              cause |-> cause]]

\* What arrives on a socket: data that JSON.parse rejects, or a message
\* object with channel and data { asset_id, event_type, price, status }.
Garbage == [kind |-> "garbage"]
Message(channel, asset, type, price, status) ==
    [kind |-> "json", channel |-> channel, asset_id |-> asset,
     event_type |-> type, price |-> price, status |-> status]

PriceMessages ==
    {Message("market", "m1", "price_change", "1", "active"),
     Message("market", "m2", "last_trade_price", "2", "active")}

Messages ==
    PriceMessages
    \cup {Garbage,
          Message("market", "m2", "price_change", "abc", "active"),
          Message("market", "m1", "book", "1", "resolved"),
          Message("market", "m2", "book", "1", "closed"),
          Message("market", "m2", "price_change", "1", "resolved"),
          Message("market", "m9", "price_change", "1", "resolved"),
          Message("other", "m1", "price_change", "2", "resolved")}

\* try { JSON.parse(...); this.handleWebSocketMessage(message) }
\* catch (error) { this.log(...) }
CatchesParseErrorMut == FALSE
CatchesParseError == TRUE

\* if (message.channel === 'market' && message.data)
IsMarketMessage(msg) == msg.kind = "json" /\ msg.channel = "market"

\* event_type === 'price_change' || event_type === 'last_trade_price'
IsPriceType(type) == type \in {"price_change", "last_trade_price"}

\* status && (status === 'resolved' || status === 'closed')
IsResolutionStatus(status) == status \in {"resolved", "closed"}

\* In handleMarketResolution notifyRealtimeUpdate is called before
\* await this.saveData().
NotifyBeforeSaveMut == FALSE
NotifyBeforeSave == TRUE

\* What a notifyRealtimeUpdate call for event e does.
NotifyRecord(e, throwers) ==
    [event |-> e,
     invoked |-> Invoked(realtimeCallbacks, throwers),
     throwers |-> throwers \cap Range(Invoked(realtimeCallbacks, throwers)),
     threw |-> NotifyThrows(realtimeCallbacks, throwers),
     adds |-> addCount,
     after |-> lastSetCall]

\* The notifyRealtimeUpdate calls for the events of out, one after the
\* other, the callbacks in throwers throwing.
Notify(out, throwers) ==
    /\ emitted' = out
    /\ emissions' = emissions + Len(out)
    /\ lastNotify' =
          IF out = <<>> THEN lastNotify
          ELSE NotifyRecord(out[Len(out)], throwers)
    /\ failed' =
          IF out = <<>> THEN failed
          ELSE failed \cup NotifyRecord(out[Len(out)], throwers).throwers

\* A history mark for the steps that concern the markets.
Op(kind) == [kind |-> kind, tick |-> 1 - lastOp.tick]

\* The 'message' handler of open socket c: JSON.parse, then
\* handleWebSocketMessage -> updateMarketPrice / handleMarketResolution ->
\* notifyRealtimeUpdate, the callbacks in throwers throwing.  The handler
\* of a resolution suspends on saveData after its notification.
WsMessage(c, msg, throwers) ==
    /\ alive
    /\ conns[c] = "open"
    /\ arrived < MaxMessages
    /\ emissions < MaxEmissions
    /\ arrived' = arrived + 1
    /\ lastMessage' = [msg |-> msg, conn |-> c]
    /\ lastOp' = Op("message")
    /\ alive' = (msg.kind = "json" \/ CatchesParseError)
    /\ LET cause == arrived + 1
           isPrice == IsMarketMessage(msg) /\ IsPriceType(msg.event_type)
           isResolution ==
               IsMarketMessage(msg) /\ IsResolutionStatus(msg.status)
           evs1 == IF isPrice
                   THEN UpdateMarketPrice(activeEvents, msg.asset_id,
                                          msg.price)
                   ELSE activeEvents
           out1 == IF isPrice
                   THEN PriceUpdateEvents(activeEvents, msg.asset_id,
                                          msg.price, cause)
                   ELSE <<>>
           evs2 == IF isResolution
                   THEN HandleMarketResolution(evs1, msg.asset_id)
                   ELSE evs1
           out2 == IF isResolution
                   THEN MarketResolvedEvents(evs1, msg.asset_id, cause)
                   ELSE <<>>
       IN /\ activeEvents' = evs2
          /\ saving' = saving \o out2
          /\ Notify(IF NotifyBeforeSave THEN out1 \o out2 ELSE out1,
                    throwers)
    /\ UNCHANGED <<realtimeCallbacks, addCount, subscribed, lastSetCall>>
    /\ UNCHANGED <<websocket, conns, wsReconnectAttempts, reconnectTimers,
                   gaveUp, stopped, closedByStop, subscriptions>>
    /\ UNCHANGED notChannel

\* await this.saveData() of the i-th suspended handleMarketResolution
\* returns; the handler leaves its loop.
SaveDone(i) ==
    /\ alive
    /\ i \in 1..Len(saving)
    /\ saving' = [n \in 1..(Len(saving) - 1) |->
                    IF n < i THEN saving[n] ELSE saving[n + 1]]
    /\ lastOp' = Op("saved")
    /\ IF NotifyBeforeSave
       THEN UNCHANGED <<emitted, emissions, lastNotify, failed>>
       ELSE Notify(<<saving[i]>>, {})
    /\ UNCHANGED <<activeEvents, arrived, lastMessage>>
    /\ UNCHANGED <<realtimeCallbacks, addCount, subscribed, lastSetCall>>
    /\ UNCHANGED <<notChannel, cvars>>

\* trackActiveEvents: a page of fetchEvents has arrived and its events are
\* parsed and stored.
RefreshPage(page) ==
    /\ alive
    /\ activeEvents' = ApplyPage(activeEvents, page)
    /\ lastOp' = Op("refresh")
    /\ UNCHANGED <<arrived, lastMessage, emitted, saving>>
    /\ UNCHANGED <<notChannel, cvars, fvars>>

\* catch (error) { ...; return []; } of fetchEvents
FetchFailureResultMut == <<ApiEvent("e1", <<"m1", "m2">>, {"m1", "m2"})>>
FetchFailureResult == <<>>

\* trackActiveEvents: the request was rejected; fetchEvents logs it and
\* returns [], which ends the loop.
FetchFails ==
    /\ alive
    /\ activeEvents' = ApplyPage(activeEvents, FetchFailureResult)
    /\ lastOp' = Op("fetchFailed")
    /\ UNCHANGED <<arrived, lastMessage, emitted, saving>>
    /\ UNCHANGED <<notChannel, cvars, fvars>>

\* The page and the messages of the fan-out runs.
FanoutPage == <<ApiEvent("e1", <<"m1", "m2">>, {})>>

FanoutNext ==
    \/ StartRealTimeTracking
    \/ \E c \in ConnIds : WsOpen(c)
    \/ \E cb \in Callbacks : AddRealtimeCallback(cb)
    \/ \E cb \in Callbacks : RemoveRealtimeCallback(cb)
    \/ RefreshPage(FanoutPage)
    \/ \E c \in ConnIds, msg \in PriceMessages :
          \E throwers \in SUBSET Range(realtimeCallbacks) :
              WsMessage(c, msg, throwers)

FanoutSpec == Init /\ [][FanoutNext]_vars

(***************************************************************************)
(* Streaming Update Channel: fan-out properties.                           *)
(***************************************************************************)
\* A step that emits a domain event.
Emits == emissions' > emissions

\* How often cb occurs in q.
Count(q, cb) == Cardinality({i \in 1..Len(q) : q[i] = cb})

\* C15: a callback that throws during an emission is removed from
\* realtimeCallbacks by that emission, and no later emission invokes it.
C15_ThrowerRemoved ==
    [][Emits =>
          /\ lastNotify'.throwers \cap Range(realtimeCallbacks') = {}
          /\ Range(lastNotify'.invoked) \cap failed = {}]_vars

\* C16: in every emission, also one in which callbacks throw and one that
\* follows such an emission, every callback of the set that does not throw
\* is invoked with the event; the exception does not leave
\* notifyRealtimeUpdate, the market has the price of the message and the
\* connection state is unchanged.
C16_FanoutIsolation ==
    [][Emits =>
          /\ \A cb \in Range(realtimeCallbacks) :
                cb \in Range(lastNotify'.invoked)
          /\ ~lastNotify'.threw
          /\ \E k \in 1..Len(activeEvents'), i \in 1..2 :
                /\ activeEvents'[k].id = lastNotify'.event.eventId
                /\ activeEvents'[k].markets[i].id =
                      lastNotify'.event.marketId
                /\ activeEvents'[k].markets[i].price =
                      lastNotify'.event.price
          /\ UNCHANGED cvars]_vars

\* The second emission: the first callback of the set threw, the one after
\* it was invoked all the same, and a callback that had thrown in the
\* first emission was invoked again.
C16_Witness ==
    /\ emissions = 2
    /\ Len(lastNotify.invoked) = 2
    /\ lastNotify.invoked[1] \in lastNotify.throwers
    /\ lastNotify.invoked[2] \notin lastNotify.throwers
    /\ lastNotify.invoked[2] \in failed

\* C17: an emission invokes every callback that is in the set exactly
\* once, also a callback that was added more than once.
C17_ExactlyOnce ==
    [][Emits =>
          \A cb \in Range(realtimeCallbacks) :
              Count(lastNotify'.invoked, cb) = 1]_vars

\* An emission that invoked a callback added twice, and another callback.
C17_Witness ==
    /\ emissions >= 1
    /\ \E cb \in Callbacks :
          /\ lastNotify.adds[cb] = 2
          /\ Count(lastNotify.invoked, cb) = 1
    /\ Len(lastNotify.invoked) = 2

\* A removeRealtimeCallback call that is visible as a step.
Removes == lastSetCall' # lastSetCall /\ lastSetCall'.op = "remove"

\* C33: the callbacks of the set are exactly those added and not removed
\* since; an emission invokes no other callback, so a removed callback is
\* not invoked again until it is added again; a removal leaves its
\* argument out of the set, and the removal of a callback that is not in
\* the set changes nothing.
C33_MembershipFollows ==
    [][/\ Range(realtimeCallbacks') = subscribed'
       /\ Emits => Range(lastNotify'.invoked) \subseteq subscribed
       /\ Removes =>
             /\ lastSetCall'.cb \notin Range(realtimeCallbacks')
             /\ ~lastSetCall'.member =>
                   UNCHANGED <<realtimeCallbacks, subscribed, emissions,
                               lastNotify, failed, cvars, mvars>>]_vars

\* cb1 and cb2 were added, cb1 was removed, an emission after that invoked
\* cb2 alone, and cb1, no longer in the set, was then removed once more.
C33_Witness ==
    /\ emissions >= 1
    /\ lastNotify.after = [op |-> "remove", cb |-> "cb1", member |-> TRUE]
    /\ lastNotify.invoked = <<"cb2">>
    /\ lastSetCall = [op |-> "remove", cb |-> "cb1", member |-> FALSE]

(***************************************************************************)
(* Streaming Update Channel: the market state under messages and polls.    *)
(***************************************************************************)
MarketNext ==
    \/ StartRealTimeTracking
    \/ \E c \in ConnIds : WsOpen(c)
    \/ AddRealtimeCallback("cb1")
    \/ \E page \in ApiPages : RefreshPage(page)
    \/ FetchFails
    \/ \E c \in ConnIds, msg \in Messages : WsMessage(c, msg, {})
    \/ \E i \in 1..Len(saving) : SaveDone(i)

MarketSpec == Init /\ [][MarketNext]_vars

\* A step that handles a message, and the message.
Receives == arrived' = arrived + 1
Msg == lastMessage'.msg

\* The message is a resolution notice / a price update for a market of an
\* active event.
Known(asset) ==
    \E k \in 1..Len(activeEvents) :
        \E i \in 1..Len(activeEvents[k].markets) :
            activeEvents[k].markets[i].id = asset
ResolutionNotice ==
    /\ Msg.kind = "json"
    /\ Msg.channel = "market"
    /\ Msg.status \in {"resolved", "closed"}
    /\ Known(Msg.asset_id)
PriceUpdate ==
    /\ Msg.kind = "json"
    /\ Msg.channel = "market"
    /\ Msg.event_type \in {"price_change", "last_trade_price"}
    /\ Known(Msg.asset_id)

\* The first event that has the market, and the market's place in it.
OwnerOf(asset) ==
    CHOOSE k \in 1..Len(activeEvents) :
        /\ \E i \in 1..Len(activeEvents[k].markets) :
              activeEvents[k].markets[i].id = asset
        /\ \A j \in 1..(k - 1) :
              \A i \in 1..Len(activeEvents[j].markets) :
                  activeEvents[j].markets[i].id # asset
PlaceOf(asset) ==
    CHOOSE i \in 1..Len(activeEvents[OwnerOf(asset)].markets) :
        /\ activeEvents[OwnerOf(asset)].markets[i].id = asset
        /\ \A j \in 1..(i - 1) :
              activeEvents[OwnerOf(asset)].markets[j].id # asset

\* The events of one type among those a step emitted.
EmittedOfType(type) == SelectSeq(emitted', LAMBDA e : e.type = type)

\* C26: handling a resolution notice for a market of an active event sets
\* the market's status to resolved, adds one to the owning event's
\* resolvedMarketsCount and takes one from its activeMarketsCount, emits
\* exactly one market_resolved event with the new counters and starts a
\* save; no other event changes.
C26_ResolutionNotice ==
    [][(Receives /\ ResolutionNotice) =>
          LET k == OwnerOf(Msg.asset_id)
              i == PlaceOf(Msg.asset_id)
          IN /\ Len(activeEvents') = Len(activeEvents)
             /\ activeEvents'[k].markets[i].status = "resolved"
             /\ activeEvents'[k].resolvedMarketsCount =
                   activeEvents[k].resolvedMarketsCount + 1
             /\ activeEvents'[k].activeMarketsCount =
                   activeEvents[k].activeMarketsCount - 1
             /\ \A j \in 1..Len(activeEvents[k].markets) :
                   j # i => activeEvents'[k].markets[j] =
                               activeEvents[k].markets[j]
             /\ \A j \in 1..Len(activeEvents) :
                   j # k => activeEvents'[j] = activeEvents[j]
             /\ EmittedOfType("market_resolved") =
                   <<[type |-> "market_resolved",
                      eventId |-> activeEvents[k].id,
                      marketId |-> Msg.asset_id,
                      status |-> "resolved",
                      activeMarketsCount |->
                          activeEvents'[k].activeMarketsCount,
                      resolvedMarketsCount |->
                          activeEvents'[k].resolvedMarketsCount,
                      cause |-> arrived']>>
             /\ Len(saving') = Len(saving) + 1]_vars

\* A notice for m2 was handled while both events have a market m2: the
\* first event was written, the second was not.
C26_Witness ==
    /\ lastOp.kind = "message"
    /\ lastMessage.msg.kind = "json"
    /\ lastMessage.msg.asset_id = "m2"
    /\ lastMessage.msg.status = "closed"
    /\ Len(activeEvents) = 2
    /\ activeEvents[1].id = "e2"
    /\ activeEvents[1].markets[1].status = "resolved"
    /\ activeEvents[1].activeMarketsCount = 0
    /\ activeEvents[2].markets[2].status = "active"
    /\ Len(emitted) = 1
    /\ Len(saving) >= 1

\* The price a message carries, as a number (NaN when it is none).
PriceOf(raw) == IF raw = "1" THEN 1 ELSE IF raw = "2" THEN 2 ELSE NaN

\* C27: handling a price update for a market of an active event sets the
\* price of the first matching market to the price of the message and
\* emits exactly one price_update event with event id, market id, new
\* price and previous price (0 when the market had none); no other
\* market's price changes.
C27_PriceUpdate ==
    [][(Receives /\ PriceUpdate) =>
          LET k == OwnerOf(Msg.asset_id)
              i == PlaceOf(Msg.asset_id)
              old == activeEvents[k].markets[i].price
          IN /\ Len(activeEvents') = Len(activeEvents)
             /\ activeEvents'[k].markets[i].price = PriceOf(Msg.price)
             /\ \A j \in 1..Len(activeEvents) :
                   \A n \in 1..Len(activeEvents[j].markets) :
                       <<j, n>> # <<k, i>> =>
                           activeEvents'[j].markets[n].price =
                               activeEvents[j].markets[n].price
             /\ EmittedOfType("price_update") =
                   <<[type |-> "price_update",
                      eventId |-> activeEvents[k].id,
                      marketId |-> Msg.asset_id,
                      price |-> PriceOf(Msg.price),
                      oldPrice |-> IF old > 0 THEN old ELSE 0,
                      cause |-> arrived']>>]_vars

\* A second price for m2 arrived while both events have a market m2: the
\* event carries the previous price, the other m2 has no price.
C27_Witness ==
    /\ lastOp.kind = "message"
    /\ Len(activeEvents) = 2
    /\ activeEvents[1].id = "e1"
    /\ activeEvents[1].markets[2].price = 1
    /\ activeEvents[2].markets[1].price = NoPrice
    /\ Len(emitted) >= 1
    /\ emitted[1].type = "price_update"
    /\ emitted[1].price = 1
    /\ emitted[1].oldPrice = 2

\* C28: a message that fails to parse is dropped: connection state,
\* attempt counter, reconnect timers, callbacks and markets are unchanged,
\* no event is emitted, and the socket goes on handling messages.
C28_ParseFailureDropped ==
    [][(Receives /\ Msg = Garbage) =>
          /\ UNCHANGED <<cvars, realtimeCallbacks, activeEvents, emissions,
                         lastNotify, saving>>
          /\ emitted' = <<>>
          /\ alive'
          /\ conns'[lastMessage'.conn] = "open"]_vars

\* Unparseable data arrived on an open socket while markets are tracked
\* and a callback is registered, after an earlier message.
C28_Witness ==
    /\ lastOp.kind = "message"
    /\ lastMessage.msg = Garbage
    /\ arrived = 2
    /\ activeEvents # <<>>
    /\ realtimeCallbacks # <<>>
    /\ conns[lastMessage.conn] = "open"

\* C29: events reach the subscribers in the arrival order of the messages
\* that caused them: whatever a step emits is caused by a message that
\* arrived no earlier than the cause of anything emitted before, and goes
\* to every callback of the set.
C29_ArrivalOrder ==
    [][Emits =>
          /\ \A n \in 1..Len(emitted') :
                emitted'[n].cause >= lastNotify.event.cause
          /\ \A n \in 1..Len(emitted'), m \in 1..Len(emitted') :
                n <= m => emitted'[n].cause <= emitted'[m].cause
          /\ Len(emitted') = emissions' - emissions
          /\ lastNotify'.event = emitted'[Len(emitted')]
          /\ lastNotify'.invoked = realtimeCallbacks]_vars

\* The handler of the first message, a resolution notice, is suspended on
\* its save, and the event of the second message has been delivered.
C29_Witness ==
    /\ arrived = 2
    /\ Len(saving) >= 1
    /\ saving[1].cause = 1
    /\ lastNotify.event.cause = 2
    /\ lastNotify.invoked # <<>>

(***************************************************************************)
(* Failures and the market state.                                          *)
(***************************************************************************)
\* The page and the messages of the failure runs: m2 is reported closed;
\* unparseable data and a resolution notice for m1 arrive.  The saves the
\* notices start stay pending.
FailurePage == <<ApiEvent("e1", <<"m1", "m2">>, {"m2"})>>
FailureMessages ==
    {Garbage, Message("market", "m1", "book", "1", "resolved")}

FailureNext ==
    \/ StartRealTimeTracking
    \/ \E d \in BagToSet(reconnectTimers) : ReconnectTimerFires(d)
    \/ \E c \in ConnIds : WsOpen(c)
    \/ \E c \in ConnIds : WsError(c)
    \/ \E c \in ConnIds : WsClose(c)
    \/ RefreshPage(FailurePage)
    \/ FetchFails
    \/ \E c \in ConnIds, msg \in FailureMessages : WsMessage(c, msg, {})
    \/ TrackMarketWinners("m1", "YES", 0)

FailureSpec == Init /\ [][FailureNext]_vars

\* The status of every market and the counters of every event.
MarketState(evs) ==
    [k \in 1..Len(evs) |->
        [id |-> evs[k].id,
         status |-> [i \in 1..Len(evs[k].markets) |->
                       evs[k].markets[i].status],
         activeMarketsCount |-> evs[k].activeMarketsCount,
         resolvedMarketsCount |-> evs[k].resolvedMarketsCount]]

\* C21: no failure changes a market's state: a step changes the status of
\* a market or the counters of an event only if it handles a resolution
\* notice for a market of an active event or stores a page of a refresh;
\* a failed winner computation, a rejected request, a dropped message and
\* the exhaustion of the reconnects do not.
C21_FailuresKeepMarkets ==
    [][MarketState(activeEvents') # MarketState(activeEvents) =>
          /\ lastOp' # lastOp
          /\ \/ lastOp'.kind = "refresh"
             \/ lastOp'.kind = "message" /\ Receives /\ ResolutionNotice]_vars

\* All four failures have happened and the markets are as the refresh
\* left them.
C21_Witness ==
    /\ gaveUp
    /\ trackReturn = Null
    /\ lastMessage.msg = Garbage
    /\ lastOp.kind = "fetchFailed"
    /\ activeEvents = ApplyPage(<<>>, FailurePage)

====
